---- MODULE Spec2Model ----
(***************************************************************************)
(* A model of geokit/_core/util.py: the matrix scaler scaleMatrix and the  *)
(* kernel decorator KernelProcessor.                                       *)
(*                                                                         *)
(* A matrix is a sequence of rows, each row a sequence of cells; index k   *)
(* of numpy is index k+1 here.  Input cells are integers.  The cells of a  *)
(* down-scaled matrix are exact rationals [n |-> numerator, d |->          *)
(* denominator] with d > 0: the division of line 214 and the correction    *)
(* factors of lines 217-219 are modelled without floating-point rounding.  *)
(***************************************************************************)
EXTENDS Integers, Sequences, FiniteSets

VARIABLES mat, scale, strict, pc, ret, back,
          size, edgeValue, passIndex, kernel,
          paddedMatrix, output, yi, xi, calls

vars == <<mat, scale, strict, pc, ret, back,
          size, edgeValue, passIndex, kernel,
          paddedMatrix, output, yi, xi, calls>>

scaleVars == <<scale, strict, ret, back>>
kernelVars == <<size, edgeValue, passIndex, kernel, paddedMatrix, output, yi, xi, calls>>

---------------------------------------------------------------------------
(* Bounds of the model *)
MaxRows == 4
MaxCols == 4
MaxCells == 8
MaxScale == 3
MaxSize == 1

Vals == {1, 5}
EdgeVals == {0, 7}
Kernels == {"center", "sum"}

None == "None"

Factors == (0 - MaxScale)..MaxScale

Shapes == {sh \in (1..MaxRows) \X (1..MaxCols) : sh[1] * sh[2] <= MaxCells}

Matrices == UNION {[1..sh[1] -> [1..sh[2] -> Vals]] : sh \in Shapes}

---------------------------------------------------------------------------
(* numpy helpers *)

\* ndarray.shape of a 2-dimensional array
Rows(m) == Len(m)
Cols(m) == IF Len(m) = 0 THEN 0 ELSE Len(m[1])

\* np.zeros((r, c))
Zeros(r, c) == [i \in 1..r |-> [j \in 1..c |-> 0]]

\* np.ones((r, c)) * v
Filled(r, c, v) == [i \in 1..r |-> [j \in 1..c |-> 1 * v]]

\* A slice bound of Python resolved against a length: a negative bound counts
\* from the end, and the result is clipped to 0..len.  -0 is 0.
SliceIndex(k, len) ==
    IF k < 0 THEN (IF k + len < 0 THEN 0 ELSE k + len)
    ELSE (IF k > len THEN len ELSE k)

\* exact rationals
Rat(n, d) == [n |-> n, d |-> d]
RatEq(a, b) == a.n * b.d = b.n * a.d
RatMul(a, p, q) == [n |-> a.n * p, d |-> a.d * q]

---------------------------------------------------------------------------
(* scaleMatrix, scale up: lines 184-188 *)

\* out[yo::yScale, xo::xScale] = m
StridedAssign(out, yo, xo, yScale, xScale, m) ==
    [r \in 1..Rows(out) |-> [c \in 1..Cols(out) |->
        IF /\ r - 1 >= yo /\ (r - 1 - yo) % yScale = 0
           /\ c - 1 >= xo /\ (c - 1 - xo) % xScale = 0
        THEN m[((r - 1 - yo) \div yScale) + 1][((c - 1 - xo) \div xScale) + 1]
        ELSE out[r][c]]]

\* for yo in range(yScale): for xo in range(xScale): ...   (t counts the iterations)
RECURSIVE UpLoop(_, _, _, _, _)
UpLoop(out, t, yScale, xScale, m) ==
    IF t >= yScale * xScale THEN out
    ELSE UpLoop(StridedAssign(out, t \div xScale, t % xScale, yScale, xScale, m),
                t + 1, yScale, xScale, m)

\* mutant: the loops start at the second iteration
ScaleUpSkip(m, yScale, xScale) ==
    UpLoop(Zeros(Rows(m) * yScale, Cols(m) * xScale), 1, yScale, xScale, m)

ScaleUp(m, yScale, xScale) ==
    UpLoop(Zeros(Rows(m) * yScale, Cols(m) * xScale), 0, yScale, xScale, m)

---------------------------------------------------------------------------
(* scaleMatrix, scale down: lines 190-219 *)

\* mutant: only the row count is tested
IsFactorRows(m, yScale, xScale) == Rows(m) % yScale = 0

\* the strict test of line 195
IsFactor(m, yScale, xScale) == Rows(m) % yScale = 0 /\ Cols(m) % xScale = 0

\* mutant: a pad equal to the factor is not reset to 0
PadNoReset(len, sc) == sc - (len % sc)

\* lines 200-204: the amount to pad a dimension of length len
Pad(len, sc) ==
    LET p == sc - (len % sc) IN IF p = sc THEN 0 ELSE p

\* np.concatenate((m, np.zeros((yPad, m.shape[1]))), 0)
PadRows(m, yPad) == IF yPad > 0 THEN m \o Zeros(yPad, Cols(m)) ELSE m

\* np.concatenate((m, np.zeros((m.shape[0], xPad))), 1)
PadCols(m, xPad) ==
    IF xPad > 0 THEN [r \in 1..Rows(m) |-> m[r] \o [j \in 1..xPad |-> 0]] ELSE m

\* len(range(start, len, step))
SliceLen(len, start, step) ==
    IF start >= len THEN 0 ELSE (len - start + step - 1) \div step

\* m[yo::yScale, xo::xScale]
StridedSlice(m, yo, xo, yScale, xScale) ==
    [i \in 1..SliceLen(Rows(m), yo, yScale) |->
        [j \in 1..SliceLen(Cols(m), xo, xScale) |->
            m[yo + (i - 1) * yScale + 1][xo + (j - 1) * xScale + 1]]]

\* mutant: out = s
AddMatOverwrite(out, s) == [i \in 1..Rows(out) |-> [j \in 1..Cols(out) |-> s[i][j]]]

\* out += s
AddMat(out, s) == [i \in 1..Rows(out) |-> [j \in 1..Cols(out) |-> out[i][j] + s[i][j]]]

\* for yo in range(yScale): for xo in range(xScale): out += m[yo::yScale, xo::xScale]
RECURSIVE DownLoop(_, _, _, _, _)
DownLoop(out, t, yScale, xScale, m) ==
    IF t >= yScale * xScale THEN out
    ELSE DownLoop(AddMat(out, StridedSlice(m, t \div xScale, t % xScale, yScale, xScale)),
                  t + 1, yScale, xScale, m)

\* mutant: out = out/(xScale*xScale)
DivideSquare(acc, yScale, xScale) ==
    [i \in 1..Rows(acc) |-> [j \in 1..Cols(acc) |-> Rat(acc[i][j], xScale * xScale)]]

\* out = out/(xScale*yScale)
Divide(acc, yScale, xScale) ==
    [i \in 1..Rows(acc) |-> [j \in 1..Cols(acc) |-> Rat(acc[i][j], xScale * yScale)]]

\* lines 210-214: the block means of the (padded) matrix
BlockMeans(m, yScale, xScale) ==
    Divide(DownLoop(Zeros(Rows(m) \div yScale, Cols(m) \div xScale), 0, yScale, xScale, m),
           yScale, xScale)

\* line 217: if yPad>0: out[:-1,-1] *= yScale/(yScale-yPad)
FixRightEdge(out, yScale, xScale, yPad, xPad) ==
    IF yPad > 0
    THEN [i \in 1..Rows(out) |-> [j \in 1..Cols(out) |->
            IF i < Rows(out) /\ j = Cols(out)
            THEN RatMul(out[i][j], yScale, yScale - yPad) ELSE out[i][j]]]
    ELSE out

\* line 218: if xPad>0: out[-1,:-1] *= xScale/(xScale-xPad)
FixBottomEdge(out, yScale, xScale, yPad, xPad) ==
    IF xPad > 0
    THEN [i \in 1..Rows(out) |-> [j \in 1..Cols(out) |->
            IF i = Rows(out) /\ j < Cols(out)
            THEN RatMul(out[i][j], xScale, xScale - xPad) ELSE out[i][j]]]
    ELSE out

\* line 219: if yPad>0: out[-1,-1] *= yScale*xScale/(yScale-yPad)/(xScale-xPad)
FixCorner(out, yScale, xScale, yPad, xPad) ==
    IF yPad > 0
    THEN [i \in 1..Rows(out) |-> [j \in 1..Cols(out) |->
            IF i = Rows(out) /\ j = Cols(out)
            THEN RatMul(out[i][j], yScale * xScale, (yScale - yPad) * (xScale - xPad))
            ELSE out[i][j]]]
    ELSE out

\* lines 216-219
CorrectEdges(out, yScale, xScale, yPad, xPad) ==
    FixCorner(FixBottomEdge(FixRightEdge(out, yScale, xScale, yPad, xPad),
                            yScale, xScale, yPad, xPad),
              yScale, xScale, yPad, xPad)

\* what a call leaves behind: the error raised (or "none"), the returned matrix,
\* and the locals yPad, xPad and out as it stood after line 214 (avg)
Raised(e) == [err |-> e, kind |-> None, out |-> None, yPad |-> None, xPad |-> None, avg |-> None]
Returned(k, o, yp, xp, a) == [err |-> "none", kind |-> k, out |-> o, yPad |-> yp, xPad |-> xp, avg |-> a]

\* lines 191-219; yScale and xScale are already negated (positive)
ScaleDown(m, yScale, xScale, st) ==
    IF st
    THEN IF ~IsFactor(m, yScale, xScale)
         THEN Raised("nonfactor")
         ELSE LET avg == BlockMeans(m, yScale, xScale)
              IN Returned("down", CorrectEdges(avg, yScale, xScale, 0, 0), 0, 0, avg)
    ELSE LET yPad == Pad(Rows(m), yScale)
             xPad == Pad(Cols(m), xScale)
             padded == PadCols(PadRows(m, yPad), xPad)
             avg == BlockMeans(padded, yScale, xScale)
         IN Returned("down", CorrectEdges(avg, yScale, xScale, yPad, xPad), yPad, xPad, avg)

\* lines 183-224, for integer factors sc = <<yScale, xScale>>
scaleMatrix(m, sc, st) ==
    LET yScale == sc[1]
        xScale == sc[2]
    IN IF xScale = 0 /\ yScale = 0 THEN Returned("same", m, None, None, None)
       ELSE IF xScale > 0 /\ yScale > 0
            THEN Returned("up", ScaleUp(m, yScale, xScale), None, None, None)
       ELSE IF xScale < 0 /\ yScale < 0
            THEN ScaleDown(m, (0 - 1) * yScale, (0 - 1) * xScale, st)
       ELSE Raised("direction")

---------------------------------------------------------------------------
(* Calls of scaleMatrix *)

NoRet == [err |-> None, kind |-> None, out |-> None, yPad |-> None, xPad |-> None, avg |-> None]

KernelIdle ==
    /\ size = 0 /\ edgeValue = 0 /\ passIndex = FALSE /\ kernel = None
    /\ paddedMatrix = None /\ output = None /\ yi = 0 /\ xi = 0 /\ calls = <<>>

Init ==
    /\ mat \in Matrices
    /\ scale \in Factors \X Factors
    /\ strict \in BOOLEAN
    /\ pc = "ready"
    /\ ret = NoRet
    /\ back = NoRet
    /\ KernelIdle

\* scaleMatrix(mat, scale, strict)
CallScaleMatrix ==
    /\ pc = "ready"
    /\ ret' = scaleMatrix(mat, scale, strict)
    /\ pc' = "returned"
    /\ UNCHANGED <<mat, scale, strict, back>>
    /\ UNCHANGED kernelVars

\* scaleMatrix(scaleMatrix(mat, (ys,xs)), (-ys,-xs), strict=True): the round trip
CallScaleBack ==
    /\ pc = "returned"
    /\ ret.kind = "up"
    /\ back' = scaleMatrix(ret.out, <<0 - scale[1], 0 - scale[2]>>, TRUE)
    /\ pc' = "roundtrip"
    /\ UNCHANGED <<mat, scale, strict, ret>>
    /\ UNCHANGED kernelVars

Next == CallScaleMatrix \/ CallScaleBack

Spec == Init /\ [][Next]_vars

---------------------------------------------------------------------------
(* Properties of scaleMatrix *)

\* the sum of the cells of m at the positions of S
RECURSIVE SumCells(_, _)
SumCells(m, S) ==
    IF S = {} THEN 0
    ELSE LET p == CHOOSE q \in S : TRUE IN m[p[1]][p[2]] + SumCells(m, S \ {p})

Min(a, b) == IF a < b THEN a ELSE b

\* the positions of block (i,j) of a rows x cols matrix that lie inside the matrix
RealBlock(i, j, ys, xs, rows, cols) ==
    {<<r, c>> : r \in ((i - 1) * ys + 1)..Min(i * ys, rows),
                c \in ((j - 1) * xs + 1)..Min(j * xs, cols)}

\* the whole block (i,j)
FullBlock(i, j, ys, xs) == RealBlock(i, j, ys, xs, i * ys, j * xs)

ys == 0 - scale[1]
xs == 0 - scale[2]

IsUp == scale[1] > 0 /\ scale[2] > 0
IsDown == scale[1] < 0 /\ scale[2] < 0
HasReturned == pc \in {"returned", "roundtrip"}

\* C1: lenient down-scaling returns in every output cell the mean of the real
\* (non-padded) input cells of its block: out[i,j] * (number of real cells) =
\* (sum of the real cells), whatever yPad and xPad are.
C1_RealMean ==
    (HasReturned /\ IsDown /\ ~strict) =>
        /\ ret.err = "none"
        /\ \A i \in 1..Rows(ret.out) : \A j \in 1..Cols(ret.out) :
              LET B == RealBlock(i, j, ys, xs, Rows(mat), Cols(mat))
              IN ret.out[i][j].n * Cardinality(B) = SumCells(mat, B) * ret.out[i][j].d

\* C2: scaling up by (ys,xs) > 0 gives shape (rows*ys, cols*xs) and
\* out[r,c] = M[r div ys, c div xs], whatever the strict flag is.
C2_UpBlocks ==
    (HasReturned /\ IsUp) =>
        /\ ret.err = "none"
        /\ Rows(ret.out) = Rows(mat) * scale[1]
        /\ Cols(ret.out) = Cols(mat) * scale[2]
        /\ \A r \in 1..Rows(ret.out) : \A c \in 1..Cols(ret.out) :
              ret.out[r][c] = mat[((r - 1) \div scale[1]) + 1][((c - 1) \div scale[2]) + 1]

C2_Witness ==
    /\ pc = "returned" /\ scale = <<2, 2>> /\ ~strict
    /\ Rows(mat) = 2 /\ mat[1][1] # mat[2][1]
    /\ ret.err = "none" /\ Rows(ret.out) = 4

\* C3: strict down-scaling by factors that divide the dimensions gives shape
\* (rows/ys, cols/xs), every cell the arithmetic mean of its ys*xs block, and no
\* boundary correction.
C3_StrictMean ==
    (HasReturned /\ IsDown /\ strict /\ Rows(mat) % ys = 0 /\ Cols(mat) % xs = 0) =>
        /\ ret.err = "none"
        /\ Rows(ret.out) = Rows(mat) \div ys
        /\ Cols(ret.out) = Cols(mat) \div xs
        /\ ret.out = ret.avg
        /\ \A i \in 1..Rows(ret.out) : \A j \in 1..Cols(ret.out) :
              ret.out[i][j].n * ys * xs = SumCells(mat, FullBlock(i, j, ys, xs)) * ret.out[i][j].d

C3_Witness ==
    /\ pc = "returned" /\ strict /\ scale = <<0 - 2, 0 - 1>>
    /\ Rows(mat) = 2 /\ mat[1][1] # mat[2][1]
    /\ ret.err = "none" /\ Rows(ret.out) = 1

\* C4: scaling up by (ys,xs) and strictly down again by (-ys,-xs) raises no error
\* and gives back the shape and the cell values of M.
C4_RoundTrip ==
    (pc = "roundtrip") =>
        /\ back.err = "none"
        /\ Rows(back.out) = Rows(mat)
        /\ Cols(back.out) = Cols(mat)
        /\ \A i \in 1..Rows(mat) : \A j \in 1..Cols(mat) :
              RatEq(back.out[i][j], Rat(mat[i][j], 1))

C4_Witness ==
    /\ pc = "roundtrip" /\ scale = <<2, 2>>
    /\ Rows(mat) = 2 /\ Cols(mat) = 2 /\ mat[1][1] # mat[2][2]
    /\ back.err = "none"

\* C5: strict down-scaling raises the non-factor error exactly when a factor does
\* not divide its dimension, and then returns nothing; lenient down-scaling never
\* raises it.
C5_NonFactor ==
    (HasReturned /\ IsDown) =>
        /\ strict => /\ (ret.err = "nonfactor") <=> (Rows(mat) % ys # 0 \/ Cols(mat) % xs # 0)
                     /\ (ret.err = "nonfactor") => (ret.kind = None)
        /\ ~strict => ret.err # "nonfactor"

C5_Witness ==
    /\ pc = "returned" /\ strict /\ scale = <<0 - 1, 0 - 2>>
    /\ Cols(mat) = 1
    /\ ret.err = "nonfactor"

\* C6: the direction error is raised exactly when one factor is strictly positive
\* and the other strictly negative; a pair with one zero component is accepted.
C6_Direction ==
    HasReturned =>
        ((ret.err = "direction") <=>
            ((scale[1] > 0 /\ scale[2] < 0) \/ (scale[1] < 0 /\ scale[2] > 0)))

\* the factor (as p/q) the boundary correction owes cell (i,j) of an r x c output
\* when the last row is corrected for yPad and the last column for xPad
RowColFactor(i, j, r, c) ==
    IF i = r /\ j < c /\ ret.yPad > 0 THEN <<ys, ys - ret.yPad>>
    ELSE IF j = c /\ i < r /\ ret.xPad > 0 THEN <<xs, xs - ret.xPad>>
    ELSE <<1, 1>>

\* C9: the correction multiplies the last output row (corner excepted) by
\* ys/(ys-yPad) if yPad > 0, the last output column (corner excepted) by
\* xs/(xs-xPad) if xPad > 0, and no other cell.
C9_PerAxis ==
    (HasReturned /\ IsDown /\ ~strict) =>
        \A i \in 1..Rows(ret.out) : \A j \in 1..Cols(ret.out) :
            (i = Rows(ret.out) /\ j = Cols(ret.out)) \/
            LET f == RowColFactor(i, j, Rows(ret.out), Cols(ret.out))
            IN RatEq(ret.out[i][j], RatMul(ret.avg[i][j], f[1], f[2]))

\* C10: in lenient down-scaling 0 <= pad < scale on both axes, a pad is 0 exactly
\* when its dimension is divisible, the padded dimensions are divisible, the output
\* shape is the padded shape divided by the factors, and no correction factor has
\* a zero denominator.
C10_Padding ==
    (HasReturned /\ IsDown /\ ~strict) =>
        /\ ret.err = "none"
        /\ 0 <= ret.yPad /\ ret.yPad < ys
        /\ 0 <= ret.xPad /\ ret.xPad < xs
        /\ (ret.yPad = 0) <=> (Rows(mat) % ys = 0)
        /\ (ret.xPad = 0) <=> (Cols(mat) % xs = 0)
        /\ (Rows(mat) + ret.yPad) % ys = 0
        /\ (Cols(mat) + ret.xPad) % xs = 0
        /\ Rows(ret.out) = (Rows(mat) + ret.yPad) \div ys
        /\ Cols(ret.out) = (Cols(mat) + ret.xPad) \div xs
        /\ ys - ret.yPad >= 1
        /\ xs - ret.xPad >= 1

C10_Witness ==
    /\ pc = "returned" /\ ~strict /\ scale = <<0 - 2, 0 - 1>>
    /\ Rows(mat) = 3
    /\ ret.yPad = 1 /\ ret.xPad = 0 /\ Rows(ret.out) = 2

---------------------------------------------------------------------------
(* KernelProcessor: lines 277-298 *)

Max(a, b) == IF a > b THEN a ELSE b

\* target[lo:hi, lo2:hi2] = src can be broadcast: each dimension of src equals the
\* target's or is 1
CanBroadcast(srcRows, srcCols, tRows, tCols) ==
    /\ srcRows = tRows \/ srcRows = 1
    /\ srcCols = tCols \/ srcCols = 1

\* line 284: the rows and columns [size:-size] selects in an array of length len,
\* as the pair <<first index (0-based), number of indices>>
InnerSlice(sz, len) ==
    LET lo == SliceIndex(sz, len)
        hi == SliceIndex(0 - sz, len)
    IN <<lo, Max(hi - lo, 0)>>

\* mutant: paddedMatrix[:yN, :xN] = matrix
PaddedAssignOrigin(blank, sz, m) ==
    [r \in 1..Rows(blank) |-> [c \in 1..Cols(blank) |->
        IF r <= Rows(m) /\ c <= Cols(m) THEN m[r][c] ELSE blank[r][c]]]

\* line 284: paddedMatrix[size:-size, size:-size] = matrix, when it can be broadcast
PaddedAssign(blank, sz, m) ==
    LET ry == InnerSlice(sz, Rows(blank))
        rx == InnerSlice(sz, Cols(blank))
    IN [r \in 1..Rows(blank) |-> [c \in 1..Cols(blank) |->
          IF /\ r - 1 >= ry[1] /\ r - 1 < ry[1] + ry[2]
             /\ c - 1 >= rx[1] /\ c - 1 < rx[1] + rx[2]
          THEN m[IF Rows(m) = 1 THEN 1 ELSE r - ry[1]][IF Cols(m) = 1 THEN 1 ELSE c - rx[1]]
          ELSE blank[r][c]]]

\* line 290: paddedMatrix[y:2*size+y+1, x:2*size+x+1]
SlicedMatrix(padded, sz, y, x) ==
    LET r0 == SliceIndex(y, Rows(padded))
        r1 == SliceIndex(2 * sz + y + 1, Rows(padded))
        c0 == SliceIndex(x, Cols(padded))
        c1 == SliceIndex(2 * sz + x + 1, Cols(padded))
    IN [a \in 1..Max(r1 - r0, 0) |-> [b \in 1..Max(c1 - c0, 0) |-> padded[r0 + a][c0 + b]]]

AllCells(w) == {<<a, b>> : a \in 1..Rows(w), b \in 1..Cols(w)}

\* the decorated function: "center" returns the middle cell of its window, "sum"
\* the sum of the cells
KernelValue(k, w) ==
    IF k = "center" THEN w[(Rows(w) + 1) \div 2][(Cols(w) + 1) \div 2]
    ELSE SumCells(w, AllCells(w))

\* lines 292-293: the arguments the kernel is called with
KernelCall(w, y, x) ==
    IF passIndex THEN [window |-> w, xi |-> x, yi |-> y]
    ELSE [window |-> w, xi |-> None, yi |-> None]

ScaleIdle == scale = <<0, 0>> /\ strict = TRUE /\ ret = NoRet /\ back = NoRet

KernelInit ==
    /\ mat \in Matrices
    /\ size \in 0..MaxSize
    /\ edgeValue \in EdgeVals
    /\ passIndex \in BOOLEAN
    /\ kernel \in Kernels
    /\ pc = "ready"
    /\ paddedMatrix = None
    /\ output = None
    /\ yi = 0
    /\ xi = 0
    /\ calls = <<>>
    /\ ScaleIdle

\* lines 280-287: wrapper2 is entered; the padded matrix is built, or the
\* assignment of line 284 raises ValueError
wrapper2Enter ==
    /\ pc = "ready"
    /\ LET yN == Rows(mat)
           xN == Cols(mat)
           blank == Filled(yN + 2 * size, xN + 2 * size, edgeValue)
           ry == InnerSlice(size, Rows(blank))
           rx == InnerSlice(size, Cols(blank))
       IN IF CanBroadcast(yN, xN, ry[2], rx[2])
          THEN /\ paddedMatrix' = PaddedAssign(blank, size, mat)
               /\ output' = Zeros(yN, xN)
               /\ pc' = "loop"
          ELSE /\ paddedMatrix' = blank
               /\ output' = None
               /\ pc' = "ValueError"
    /\ UNCHANGED <<mat, size, edgeValue, passIndex, kernel, yi, xi, calls>>
    /\ UNCHANGED scaleVars

\* lines 288-293: one iteration of the loops over yi and xi
wrapper2Step ==
    /\ pc = "loop"
    /\ yi < Rows(mat)
    /\ LET slicedMatrix == SlicedMatrix(paddedMatrix, size, yi, xi)
       IN /\ calls' = Append(calls, KernelCall(slicedMatrix, yi, xi))
          /\ output' = [output EXCEPT ![yi + 1][xi + 1] = KernelValue(kernel, slicedMatrix)]
    /\ IF xi + 1 < Cols(mat)
       THEN xi' = xi + 1 /\ yi' = yi
       ELSE xi' = 0 /\ yi' = yi + 1
    /\ UNCHANGED <<mat, size, edgeValue, passIndex, kernel, paddedMatrix, pc>>
    /\ UNCHANGED scaleVars

\* line 296: return output
wrapper2Return ==
    /\ pc = "loop"
    /\ yi = Rows(mat)
    /\ pc' = "done"
    /\ UNCHANGED <<mat, size, edgeValue, passIndex, kernel, paddedMatrix, output, yi, xi, calls>>
    /\ UNCHANGED scaleVars

KernelNext == wrapper2Enter \/ wrapper2Step \/ wrapper2Return

KernelSpec == KernelInit /\ [][KernelNext]_vars

---------------------------------------------------------------------------
(* Properties of KernelProcessor *)

\* C7: with size = 0 and a kernel returning the single value of its window, the
\* processor completes without error and returns a matrix equal to M.
C7_Identity ==
    (size = 0 /\ kernel = "center") =>
        /\ pc # "ValueError"
        /\ (pc = "done") => (output = mat)

\* the window the claim describes for the cell in row y and column x of M (from 1)
ExpectedWindow(y, x) ==
    [a \in 1..(2 * size + 1) |-> [b \in 1..(2 * size + 1) |->
        LET r == y - size + a - 1
            c == x - size + b - 1
        IN IF r >= 1 /\ r <= Rows(mat) /\ c >= 1 /\ c <= Cols(mat)
           THEN mat[r][c] ELSE edgeValue]]

\* C8: for size >= 1 the kernel is called exactly once per cell, in every call the
\* window holds the cells of M around the cell and edgeValue outside M, the
\* kernel's value is stored at the cell, and the output has the shape of M.
C8_Windows ==
    (size >= 1) =>
        /\ pc # "ValueError"
        /\ (pc = "done") =>
              /\ Len(calls) = Rows(mat) * Cols(mat)
              /\ Rows(output) = Rows(mat) /\ Cols(output) = Cols(mat)
              /\ \A y \in 0..(Rows(mat) - 1) : \A x \in 0..(Cols(mat) - 1) :
                    LET k == y * Cols(mat) + x + 1
                    IN /\ calls[k].window = ExpectedWindow(y + 1, x + 1)
                       /\ passIndex => (calls[k].yi = y /\ calls[k].xi = x)
                       /\ output[y + 1][x + 1] = KernelValue(kernel, ExpectedWindow(y + 1, x + 1))

C8_Witness ==
    /\ pc = "done" /\ size = 1 /\ edgeValue = 0
    /\ mat = <<<<5>>>>
    /\ Len(calls) = 1
    /\ calls[1].window = <<<<0, 0, 0>>, <<0, 5, 0>>, <<0, 0, 0>>>>

====
